---------------------------- MODULE Spec2Model ----------------------------
(***************************************************************************)
(* A model of the wordle solver: the feedback evaluator (evaluateGuess),   *)
(* the bucket partitioner (makeBuckets), the two guess selectors           *)
(* (getBestNextGuess of index.js, scored by computeExpectedRemaining, and  *)
(* getBestNextGuess of the second solver file, scored by Shannon entropy)  *)
(* and the Solver class of each file (constructor, setResponse,            *)
(* setNextGuess).                                                          *)
(*                                                                         *)
(* A JavaScript string is a sequence of one-character strings, so that     *)
(* toLowerCase, the regular expressions and response.join('') are          *)
(* computed and not assumed.  Array positions are 1-based here and 0-based *)
(* in the source.  Math.log2 is a fixed-point table (millionths of a bit)  *)
(* that is additive over prime factors, so two scores that are equal as    *)
(* real numbers compare equal; the rounding of IEEE doubles is not         *)
(* modelled.                                                               *)
(***************************************************************************)
EXTENDS Integers, Sequences, FiniteSets, TLC

VARIABLES
    file,               \* which solver file this Solver instance comes from
    VALID_ANSWERS,      \* the answer-list file, loaded at module scope
    VALID_NON_ANSWERS,  \* the guess-list file, loaded at module scope
    guessCount,         \* this.guessCount
    answers,            \* this.answers
    nextGuess,          \* this.nextGuess
    buckets,            \* this.buckets: response string -> array of answers
    last,               \* the last call: its name, argument and outcome
    consistent,         \* the answers every response passed so far is honest for
    hidden,             \* the hidden answer of a played game (LiveSpec only)
    evalAnswer,         \* EvalSpec: the answer given to evaluateGuess
    evalGuess,          \* EvalSpec: the guess given to evaluateGuess
    evalResponse        \* EvalSpec: what evaluateGuess returned

vars == <<file, VALID_ANSWERS, VALID_NON_ANSWERS, guessCount, answers,
          nextGuess, buckets, last, consistent, hidden,
          evalAnswer, evalGuess, evalResponse>>

solverVars == <<file, VALID_ANSWERS, VALID_NON_ANSWERS, guessCount, answers,
                nextGuess, buckets, last, consistent, hidden>>

evalVars == <<evalAnswer, evalGuess, evalResponse>>

-----------------------------------------------------------------------------
(* Bounds of the model. *)

\* EvalSpec: the number of letters evaluateGuess is tried on
NumLetters == 3

\* Spec: the longest answer list and guess list loaded
MaxAnswers == 3
MaxNonAnswers == 1

\* Spec: setResponse is not called once guessCount has reached this
MaxGuessCount == 7

\* LiveSpec: the longest answer list of a played game
LiveAnswers == 7

-----------------------------------------------------------------------------
(* Helpers for JavaScript values. *)

Range(s) == {s[i] : i \in DOMAIN s}

Min(a, b) == IF a < b THEN a ELSE b

\* obj[k] = v on an object used as a map
Put(obj, k, v) ==
    IF k \in DOMAIN obj THEN [obj EXCEPT ![k] = v] ELSE obj @@ (k :> v)

\* the empty object {}
EmptyObject == <<>>

\* new Array(n).fill(v)
RECURSIVE Fill(_, _)
Fill(n, v) == IF n = 0 THEN <<>> ELSE Append(Fill(n - 1, v), v)

\* F applied to the value of e, like `const v = e; ... F(v)`: e is computed
\* once, however often F uses its argument (TLC would recompute an operator
\* argument at each use where it evaluates ENABLED)
With(e, F(_)) == CHOOSE r \in {F(v) : v \in {e}} : TRUE

\* the number of letters of a word: the loop bound and the {5} of the regexes
WordLength == 5

-----------------------------------------------------------------------------
(* evaluateGuess: one pass over the five positions. *)

\* obj[c] || 0
OrZero(obj, c) == IF c \in DOMAIN obj THEN obj[c] ELSE 0

\* obj[c] || []
OrEmptyArray(obj, c) == IF c \in DOMAIN obj THEN obj[c] ELSE <<>>

\* a slip of the loop body: the latest waiting guess position is taken
\* instead of the earliest
evaluateGuessBodyLatest(st, i, a, g) ==
    IF a = g
    THEN [st EXCEPT !.response[i] = 2]
    ELSE With(OrZero(st.earlierAnswerLetters, g), LAMBDA earlierA :
         With(IF earlierA # 0
              THEN [st EXCEPT !.earlierAnswerLetters = Put(@, g, earlierA - 1),
                              !.response[i] = 1]
              ELSE [st EXCEPT !.earlierGuessLetters =
                                  Put(@, g, Append(OrEmptyArray(@, g), i))],
              LAMBDA st1 :
         With(OrEmptyArray(st1.earlierGuessLetters, a), LAMBDA earlierG :
             IF Len(earlierG) # 0
             THEN [st1 EXCEPT !.earlierGuessLetters =
                                  Put(@, a, SubSeq(earlierG, 1, Len(earlierG) - 1)),
                              !.response[earlierG[Len(earlierG)]] = 1]
             ELSE [st1 EXCEPT !.earlierAnswerLetters =
                                  Put(@, a, OrZero(@, a) + 1)])))

\* the body of the for loop, at position i with a = aLetters[i], g = gLetters[i]
evaluateGuessBody(st, i, a, g) ==
    IF a = g
    THEN [st EXCEPT !.response[i] = 2]
    ELSE With(OrZero(st.earlierAnswerLetters, g), LAMBDA earlierA :
         With(IF earlierA # 0
              THEN [st EXCEPT !.earlierAnswerLetters = Put(@, g, earlierA - 1),
                              !.response[i] = 1]
              ELSE [st EXCEPT !.earlierGuessLetters =
                                  Put(@, g, Append(OrEmptyArray(@, g), i))],
              LAMBDA st1 :
         With(OrEmptyArray(st1.earlierGuessLetters, a), LAMBDA earlierG :
             IF Len(earlierG) # 0
             THEN [st1 EXCEPT !.earlierGuessLetters = Put(@, a, Tail(earlierG)),
                              !.response[Head(earlierG)] = 1]
             ELSE [st1 EXCEPT !.earlierAnswerLetters =
                                  Put(@, a, OrZero(@, a) + 1)])))

RECURSIVE evaluateGuessLoop(_, _, _, _)
evaluateGuessLoop(st, i, aLetters, gLetters) ==
    IF i > WordLength
    THEN st
    ELSE With(evaluateGuessBody(st, i, aLetters[i], gLetters[i]),
              LAMBDA st1 : evaluateGuessLoop(st1, i + 1, aLetters, gLetters))

\* response.join(''): each number becomes its digit
DigitOf(n) == CASE n = 0 -> "0" [] n = 1 -> "1" [] n = 2 -> "2"

RECURSIVE JoinFrom(_, _)
JoinFrom(response, i) ==
    IF i > Len(response)
    THEN <<>>
    ELSE <<DigitOf(response[i])>> \o JoinFrom(response, i + 1)

Join(response) == JoinFrom(response, 1)

evaluateGuess(answer, guess) ==
    With(answer, LAMBDA aLetters :
    With(guess, LAMBDA gLetters :
    With(evaluateGuessLoop([response |-> Fill(WordLength, 0),
                            earlierAnswerLetters |-> EmptyObject,
                            earlierGuessLetters |-> EmptyObject],
                           1, aLetters, gLetters).response,
         LAMBDA response : Join(response))))


-----------------------------------------------------------------------------
(* makeBuckets: the answers grouped by the response each gives to guess,   *)
(* each bucket in the order of the answers.                                *)

\* a slip of the loop: the last answer is never put in a bucket
RECURSIVE makeBucketsLoopShort(_, _, _, _)
makeBucketsLoopShort(b, k, guess, ans) ==
    IF k >= Len(ans)
    THEN b
    ELSE With(evaluateGuess(ans[k], guess), LAMBDA index :
         With(Put(b, index, Append(OrEmptyArray(b, index), ans[k])), LAMBDA b1 :
              makeBucketsLoopShort(b1, k + 1, guess, ans)))

makeBucketsShort(guess, ans) == makeBucketsLoopShort(EmptyObject, 1, guess, ans)

RECURSIVE makeBucketsLoop(_, _, _, _)
makeBucketsLoop(b, k, guess, ans) ==
    IF k > Len(ans)
    THEN b
    ELSE With(evaluateGuess(ans[k], guess), LAMBDA index :
         With(Put(b, index, Append(OrEmptyArray(b, index), ans[k])), LAMBDA b1 :
              makeBucketsLoop(b1, k + 1, guess, ans)))

makeBuckets(guess, ans) == makeBucketsLoop(EmptyObject, 1, guess, ans)

-----------------------------------------------------------------------------
(* Numbers.  Math.log2(n) in millionths, additive over the prime factors   *)
(* of n.                                                                   *)

Log2Micro(n) ==
    <<0, 1000000, 1584963, 2000000, 2321928, 2584963, 2807355, 3000000,
      3169926, 3321928, 3459432, 3584963, 3700440, 3807355, 3906891,
      4000000>>[n]

\* A value of computeExpectedRemaining: NaN, 0, Infinity, or the positive
\* number 2^(num / den) with num in millionths.
NaN == [kind |-> "NaN", num |-> 0, den |-> 1]
Zero == [kind |-> "zero", num |-> 0, den |-> 1]
Infinity == [kind |-> "Infinity", num |-> 0, den |-> 1]
Pow2(num, den) == [kind |-> "pow2", num |-> num, den |-> den]

\* x < y on these numbers; false when either is NaN
NumLess(x, y) ==
    CASE x.kind = "NaN" \/ y.kind = "NaN" -> FALSE
      [] x.kind = "Infinity" -> FALSE
      [] y.kind = "Infinity" -> TRUE
      [] y.kind = "zero" -> FALSE
      [] x.kind = "zero" -> TRUE
      [] OTHER -> x.num * y.den < y.num * x.den

\* x === y on these numbers; false when either is NaN
NumEq(x, y) ==
    CASE x.kind = "NaN" \/ y.kind = "NaN" -> FALSE
      [] x.kind # y.kind -> FALSE
      [] x.kind = "pow2" -> x.num * y.den = y.num * x.den
      [] OTHER -> TRUE

RECURSIVE SumLengths(_, _)
SumLengths(b, keys) ==
    IF keys = {}
    THEN 0
    ELSE With(CHOOSE x \in keys : TRUE,
              LAMBDA k : Len(b[k]) + SumLengths(b, keys \ {k}))

RECURSIVE SumXLogX(_, _)
SumXLogX(b, keys) ==
    IF keys = {}
    THEN 0
    ELSE With(CHOOSE x \in keys : TRUE,
              LAMBDA k : Len(b[k]) * Log2Micro(Len(b[k])) + SumXLogX(b, keys \ {k}))

Code22222 == <<"2", "2", "2", "2", "2">>

(* computeExpectedRemaining.  With entropy = log2(total) - sumXLogX/total  *)
(* and powEntropy = 2^entropy, total / powEntropy = 2^(sumXLogX/total) and *)
(* total^2 / (total+1) / powEntropy                                        *)
(*    = 2^(sumXLogX/total + log2(total) - log2(total+1)).                  *)
computeExpectedRemaining(b) ==
    LET answer == Code22222 \in DOMAIN b
        restBuckets == (DOMAIN b) \ {Code22222}
    IN  With(SumLengths(b, restBuckets), LAMBDA total :
        With(SumXLogX(b, restBuckets), LAMBDA sumXLogX :
            IF total = 0
            THEN IF answer THEN Zero ELSE NaN
            ELSE IF answer
                 THEN Pow2(sumXLogX
                               + total * (Log2Micro(total) - Log2Micro(total + 1)),
                           total)
                 ELSE Pow2(sumXLogX, total)))

\* the missing argument, and a missing `guesses` option
Undefined == <<"undefined">>

\* !guess on a string or undefined
Falsy(guess) == guess = Undefined \/ guess = <<>>

\* the default of the `guesses` option in index.js
DefaultGuesses == VALID_ANSWERS \o VALID_NON_ANSWERS

\* ALL_ANSWERS and ALL_GUESSES of the second solver file
ALL_ANSWERS == VALID_ANSWERS
ALL_GUESSES == ALL_ANSWERS \o VALID_NON_ANSWERS

-----------------------------------------------------------------------------
(* getBestNextGuess of index.js: the set of values sample() may return.    *)

RECURSIVE getBestLoop(_, _, _, _)
getBestLoop(acc, k, guesses, ans) ==
    IF k > Len(guesses)
    THEN acc
    ELSE With(makeBuckets(guesses[k], ans), LAMBDA b :
         With(computeExpectedRemaining(b), LAMBDA expectedRemaining :
         With(IF NumLess(expectedRemaining, acc.bestExpectedRemaining)
              THEN [best |-> <<[guess |-> guesses[k], buckets |-> b]>>,
                    bestExpectedRemaining |-> expectedRemaining]
              ELSE IF NumEq(expectedRemaining, acc.bestExpectedRemaining)
                   THEN [acc EXCEPT !.best =
                                  Append(@, [guess |-> guesses[k], buckets |-> b])]
                   ELSE acc,
              LAMBDA acc1 : getBestLoop(acc1, k + 1, guesses, ans))))

\* `best` is undefined until a guess scores below Infinity; it is <<>> here,
\* and sample(undefined) is then no value at all.
getBestNextGuess(ans, guessesOption) ==
    With(IF guessesOption = Undefined THEN DefaultGuesses ELSE guessesOption,
         LAMBDA guesses :
        With(getBestLoop([best |-> <<>>, bestExpectedRemaining |-> Infinity],
                         1, guesses, ans).best, LAMBDA best :
        With(SelectSeq(best, LAMBDA d : Code22222 \in DOMAIN d.buckets),
             LAMBDA bestAnswers :
                 IF bestAnswers # <<>> THEN Range(bestAnswers) ELSE Range(best))))

-----------------------------------------------------------------------------
(* getBestNextGuess of the second solver file.  An entropy is num / den    *)
(* millionths of a bit: -p * log2(p) with p = length / answers.length is   *)
(* length * (log2(answers.length) - log2(length)) / answers.length.        *)

RECURSIVE EntropyNum(_, _, _)
EntropyNum(b, keys, n) ==
    IF keys = {}
    THEN 0
    ELSE With(CHOOSE x \in keys : TRUE,
              LAMBDA k : Len(b[k]) * (Log2Micro(n) - Log2Micro(Len(b[k])))
                             + EntropyNum(b, keys \ {k}, n))

RECURSIVE getBestLoop_part000(_, _, _, _)
getBestLoop_part000(acc, k, guesses, ans) ==
    IF k > Len(guesses)
    THEN acc
    ELSE With(makeBuckets(guesses[k], ans), LAMBDA b :
         With([num |-> EntropyNum(b, DOMAIN b, Len(ans)), den |-> Len(ans)],
              LAMBDA entropy :
         With(IF entropy.num * acc.bestEntropy.den > acc.bestEntropy.num * entropy.den
              THEN [best |-> <<[guess |-> guesses[k], buckets |-> b]>>,
                    bestEntropy |-> entropy]
              ELSE IF entropy.num * acc.bestEntropy.den
                          = acc.bestEntropy.num * entropy.den
                   THEN [acc EXCEPT !.best =
                                  Append(@, [guess |-> guesses[k], buckets |-> b])]
                   ELSE acc,
              LAMBDA acc1 : getBestLoop_part000(acc1, k + 1, guesses, ans))))

getBestNextGuess_part000(ans, guessesOption) ==
    With(IF guessesOption = Undefined THEN ALL_GUESSES ELSE guessesOption,
         LAMBDA guesses :
             Range(getBestLoop_part000([best |-> <<>>,
                                        bestEntropy |-> [num |-> -1000000, den |-> 1]],
                                       1, guesses, ans).best))

-----------------------------------------------------------------------------
(* Strings: the regular expressions and toLowerCase. *)

UpperCase == <<"A", "B", "C", "D", "E", "F", "G", "H", "I", "J", "K", "L", "M",
               "N", "O", "P", "Q", "R", "S", "T", "U", "V", "W", "X", "Y", "Z">>

LowerCase == <<"a", "b", "c", "d", "e", "f", "g", "h", "i", "j", "k", "l", "m",
               "n", "o", "p", "q", "r", "s", "t", "u", "v", "w", "x", "y", "z">>

\* /^[0-2]{5}$/.test(response)
ResponseRegex(response) ==
    /\ Len(response) = WordLength
    /\ \A i \in DOMAIN response : response[i] \in {"0", "1", "2"}

\* /^[A-Za-z]{5}$/.test(guess)
GuessRegex(guess) ==
    /\ Len(guess) = WordLength
    /\ \A i \in DOMAIN guess : guess[i] \in Range(UpperCase) \cup Range(LowerCase)

\* one character of toLowerCase
LowerOf(c) ==
    IF c \in Range(UpperCase)
    THEN LowerCase[CHOOSE k \in DOMAIN UpperCase : UpperCase[k] = c]
    ELSE c

RECURSIVE toLowerCaseFrom(_, _)
toLowerCaseFrom(guess, i) ==
    IF i > Len(guess)
    THEN <<>>
    ELSE <<LowerOf(guess[i])>> \o toLowerCaseFrom(guess, i + 1)

\* guess.toLowerCase()
toLowerCase(guess) == toLowerCaseFrom(guess, 1)

\* the opening guess 'soare'
soare == <<"s", "o", "a", "r", "e">>

\* answers.length + guessCount <= 6 in the second solver file
TurnBudget == 6

-----------------------------------------------------------------------------
(* The Solver of index.js. *)

\* what a call of setNextGuess leaves: an error thrown or none, and the
\* fields it assigned; selector says whether getBestNextGuess was run, and
\* guesses is the list of guesses it scanned
Outcome(err, guess, b, selector, guesses) ==
    [err |-> err, nextGuess |-> guess, buckets |-> b,
     selector |-> selector, guesses |-> guesses]

Called(op, arg, o) ==
    [op |-> op, arg |-> arg, err |-> o.err, selector |-> o.selector,
     guesses |-> o.guesses]

\* a call that throws before it assigns anything
Throw(op, arg, err) ==
    /\ last' = Called(op, arg, Outcome(err, nextGuess, buckets, FALSE, <<>>))
    /\ UNCHANGED <<guessCount, answers, nextGuess, buckets>>

\* this.guessCount += 1.  The counter stops at MaxGuessCount where no guard
\* stops the calls (LiveSpec): the code reads it only in !this.guessCount and
\* in answers.length + guessCount <= 6, which no two values from 6 on tell apart.
GuessCountPlusOne ==
    IF guessCount < MaxGuessCount THEN guessCount + 1 ELSE guessCount

\* setNextGuess(guess) of index.js on this.answers = ans: its outcomes
setNextGuess(guess, ans) ==
    IF Falsy(guess) /\ guessCount # 0
    THEN {Outcome("none", d.guess, d.buckets, TRUE, DefaultGuesses) :
            d \in getBestNextGuess(ans, Undefined)}
    ELSE LET given == IF guessCount = 0 THEN soare ELSE guess
         IN  IF ~GuessRegex(given)
             THEN {Outcome("invalid guess", nextGuess, buckets, FALSE, <<>>)}
             ELSE With(toLowerCase(given), LAMBDA lower :
                     {Outcome("none", lower, makeBuckets(lower, ans), FALSE, <<>>)})

\* a slip of setResponse: `this.answers = answers` is left out
setResponseKeepsAnswers(response) ==
    IF ~ResponseRegex(response)
    THEN Throw("setResponse", response, "invalid response")
    ELSE IF response \notin DOMAIN buckets \/ Len(buckets[response]) = 0
    THEN Throw("setResponse", response, "no answers remaining")
    ELSE \E o \in setNextGuess(Undefined, answers) :
            /\ answers' = answers
            /\ nextGuess' = o.nextGuess
            /\ buckets' = o.buckets
            /\ guessCount' = IF o.err = "none" THEN GuessCountPlusOne ELSE guessCount
            /\ last' = Called("setResponse", response, o)

\* setResponse(response) of index.js
setResponse(response) ==
    IF ~ResponseRegex(response)
    THEN Throw("setResponse", response, "invalid response")
    ELSE IF response \notin DOMAIN buckets \/ Len(buckets[response]) = 0
    THEN Throw("setResponse", response, "no answers remaining")
    ELSE \E ans \in {buckets[response]} : \E o \in setNextGuess(Undefined, ans) :
            /\ answers' = ans
            /\ nextGuess' = o.nextGuess
            /\ buckets' = o.buckets
            /\ guessCount' = IF o.err = "none" THEN GuessCountPlusOne ELSE guessCount
            /\ last' = Called("setResponse", response, o)

\* the caller's solver.setNextGuess(guess) on index.js
callSetNextGuess(guess) ==
    \E o \in setNextGuess(guess, answers) :
        /\ nextGuess' = o.nextGuess
        /\ buckets' = o.buckets
        /\ last' = Called("setNextGuess", guess, o)
        /\ UNCHANGED <<guessCount, answers>>

-----------------------------------------------------------------------------
(* The Solver of the second solver file. *)

\* a slip of setNextGuess: a guess given by the caller is stored, and the
\* buckets are left as they were
setNextGuessStale_part000(guess, ans) ==
    IF Falsy(guess)
    THEN LET guesses == IF Len(ans) + guessCount <= TurnBudget THEN ans ELSE Undefined
         IN  {Outcome("none", d.guess, d.buckets, TRUE,
                      IF guesses = Undefined THEN ALL_GUESSES ELSE guesses) :
                d \in getBestNextGuess_part000(ans, guesses)}
    ELSE IF ~GuessRegex(guess)
         THEN {Outcome("invalid guess", nextGuess, buckets, FALSE, <<>>)}
         ELSE {Outcome("none", toLowerCase(guess), buckets, FALSE, <<>>)}

\* setNextGuess(guess) of the second solver file on this.answers = ans
setNextGuess_part000(guess, ans) ==
    IF Falsy(guess)
    THEN LET guesses == IF Len(ans) + guessCount <= TurnBudget THEN ans ELSE Undefined
         IN  {Outcome("none", d.guess, d.buckets, TRUE,
                      IF guesses = Undefined THEN ALL_GUESSES ELSE guesses) :
                d \in getBestNextGuess_part000(ans, guesses)}
    ELSE IF ~GuessRegex(guess)
         THEN {Outcome("invalid guess", nextGuess, buckets, FALSE, <<>>)}
         ELSE With(toLowerCase(guess), LAMBDA lower :
                 {Outcome("none", lower, makeBuckets(lower, ans), FALSE, <<>>)})

setResponse_part000(response) ==
    IF ~ResponseRegex(response)
    THEN Throw("setResponse", response, "invalid response")
    ELSE IF response \notin DOMAIN buckets \/ Len(buckets[response]) = 0
    THEN Throw("setResponse", response, "no answers remaining")
    ELSE \E ans \in {buckets[response]} : \E o \in setNextGuess_part000(Undefined, ans) :
            /\ answers' = ans
            /\ nextGuess' = o.nextGuess
            /\ buckets' = o.buckets
            /\ guessCount' = IF o.err = "none" THEN GuessCountPlusOne ELSE guessCount
            /\ last' = Called("setResponse", response, o)

callSetNextGuess_part000(guess) ==
    \E o \in setNextGuess_part000(guess, answers) :
        /\ nextGuess' = o.nextGuess
        /\ buckets' = o.buckets
        /\ last' = Called("setNextGuess", guess, o)
        /\ UNCHANGED <<guessCount, answers>>

-----------------------------------------------------------------------------
(* The word lists and the caller's inputs. *)

\* the answer-list file: the first words of this list
AnswerFile ==
    << <<"c", "r", "a", "n", "e">>, <<"b", "a", "t", "c", "h">>,
       <<"c", "a", "t", "c", "h">>, <<"h", "a", "t", "c", "h">>,
       <<"l", "a", "t", "c", "h">>, <<"m", "a", "t", "c", "h">>,
       <<"p", "a", "t", "c", "h">>, <<"w", "a", "t", "c", "h">> >>

\* the words of AnswerFile that the opening guess 'soare' does not tell apart
AlikeFile == Tail(AnswerFile)

\* the guess-list file: the first words of this list
GuessFile ==
    << soare, <<"c", "h", "a", "m", "p">>, <<"b", "l", "i", "m", "p">> >>

\* the responses a caller passes: every response the current guess can get,
\* one well-formed response more, and malformed ones
Responses ==
    (DOMAIN buckets) \cup
    { <<"1", "1", "1", "1", "1">>, <<"9", "9", "9">>, <<"1", "2">>,
      <<"a", "b", "c", "d", "e">> }

\* the guesses a caller passes to setNextGuess: none, the empty string,
\* malformed words, and well-formed words in either case
Guesses ==
    { Undefined, <<>>, <<"a", "b", "1", "d", "e">>, <<"a", "b", "c", "d">>,
      <<"C", "r", "A", "n", "E">>, <<"f", "u", "z", "z", "y">> }

NoWord == <<>>

\* new Solver() of either file, the word lists loaded
Construct(f, validAnswers, validNonAnswers) ==
    /\ file = f
    /\ VALID_ANSWERS = validAnswers
    /\ VALID_NON_ANSWERS = validNonAnswers
    /\ guessCount = 0
    /\ answers = validAnswers
    /\ nextGuess = soare
    /\ buckets = makeBuckets(soare, validAnswers)
    /\ last = [op |-> "constructor", arg |-> <<>>, err |-> "none",
               selector |-> FALSE, guesses |-> <<>>]
    /\ consistent = Range(validAnswers)

Files == {"index.js", "part_000"}

\* the answers a response is honest for, among those it was honest for so far
StillConsistent(response) ==
    {a \in consistent : evaluateGuess(a, nextGuess) = response}

-----------------------------------------------------------------------------
(* Spec: any sequence of calls on a solver of either file. *)

Init ==
    /\ \E f \in Files :
       \E n \in 1..Min(MaxAnswers, Len(AnswerFile)) :
       \E m \in 0..Min(MaxNonAnswers, Len(GuessFile)) :
           Construct(f, SubSeq(AnswerFile, 1, n), SubSeq(GuessFile, 1, m))
    /\ hidden = NoWord
    /\ evalAnswer = <<>>
    /\ evalGuess = <<>>
    /\ evalResponse = <<>>

SetResponseIndex(response) ==
    /\ file = "index.js"
    /\ guessCount < MaxGuessCount
    /\ setResponse(response)
    /\ consistent' = StillConsistent(response)
    /\ UNCHANGED <<file, VALID_ANSWERS, VALID_NON_ANSWERS, hidden, evalVars>>

SetNextGuessIndex(guess) ==
    /\ file = "index.js"
    /\ callSetNextGuess(guess)
    /\ UNCHANGED <<file, VALID_ANSWERS, VALID_NON_ANSWERS, consistent, hidden, evalVars>>

SetResponsePart000(response) ==
    /\ file = "part_000"
    /\ guessCount < MaxGuessCount
    /\ setResponse_part000(response)
    /\ consistent' = StillConsistent(response)
    /\ UNCHANGED <<file, VALID_ANSWERS, VALID_NON_ANSWERS, hidden, evalVars>>

SetNextGuessPart000(guess) ==
    /\ file = "part_000"
    /\ callSetNextGuess_part000(guess)
    /\ UNCHANGED <<file, VALID_ANSWERS, VALID_NON_ANSWERS, consistent, hidden, evalVars>>

Next ==
    \/ \E response \in Responses : SetResponseIndex(response)
    \/ \E guess \in Guesses : SetNextGuessIndex(guess)
    \/ \E response \in Responses : SetResponsePart000(response)
    \/ \E guess \in Guesses : SetNextGuessPart000(guess)

Spec == Init /\ [][Next]_vars

-----------------------------------------------------------------------------
(* LiveSpec: a game played with honest responses and no setNextGuess call, *)
(* on answers that the opening guess does not tell apart; the hidden       *)
(* answer is the first or the last of them.                                *)

LiveInit ==
    /\ \E f \in Files :
       \E n \in 1..Min(LiveAnswers, Len(AlikeFile)) :
       \E m \in 0..Min(MaxNonAnswers, Len(GuessFile)) :
           /\ Construct(f, SubSeq(AlikeFile, 1, n), SubSeq(GuessFile, 1, m))
           /\ hidden \in {AlikeFile[1], AlikeFile[n]}
    /\ evalAnswer = <<>>
    /\ evalGuess = <<>>
    /\ evalResponse = <<>>

HonestResponseIndex ==
    /\ file = "index.js"
    /\ \E response \in {evaluateGuess(hidden, nextGuess)} :
          /\ setResponse(response)
          /\ consistent' = StillConsistent(response)
    /\ UNCHANGED <<file, VALID_ANSWERS, VALID_NON_ANSWERS, hidden, evalVars>>

HonestResponsePart000 ==
    /\ file = "part_000"
    /\ \E response \in {evaluateGuess(hidden, nextGuess)} :
          /\ setResponse_part000(response)
          /\ consistent' = StillConsistent(response)
    /\ UNCHANGED <<file, VALID_ANSWERS, VALID_NON_ANSWERS, hidden, evalVars>>

LiveNext == HonestResponseIndex \/ HonestResponsePart000

LiveSpec == LiveInit /\ [][LiveNext]_vars /\ WF_vars(LiveNext)

-----------------------------------------------------------------------------
(* EvalSpec: evaluateGuess applied to every pair of words over a small     *)
(* alphabet.                                                               *)

Letters == Range(SubSeq(LowerCase, 1, NumLetters))

Words == [1..WordLength -> Letters]

EvalInit ==
    /\ Construct("index.js", SubSeq(AnswerFile, 1, 1), <<>>)
    /\ hidden = NoWord
    /\ evalAnswer \in Words
    /\ evalGuess \in Words
    /\ evalResponse = <<>>

Evaluate ==
    /\ evalResponse = <<>>
    /\ evalResponse' = evaluateGuess(evalAnswer, evalGuess)
    /\ UNCHANGED <<evalAnswer, evalGuess, solverVars>>

EvalNext == Evaluate

EvalSpec == EvalInit /\ [][EvalNext]_vars

-----------------------------------------------------------------------------
(* What the claims speak of. *)

Succeeded(op) == last.op = op /\ last.err = "none"

\* the step is a call of op that returned
Succeeds(op) == last'.op = op /\ last'.err = "none"

\* the values the selector of this solver's file may return
Selector(ans, guesses) ==
    IF file = "index.js"
    THEN getBestNextGuess(ans, guesses)
    ELSE getBestNextGuess_part000(ans, guesses)

\* guess g scores strictly better than guess h on the candidates ans, by the
\* metric of this solver's file
ScoresBetter(g, h, ans) ==
    IF file = "index.js"
    THEN NumLess(computeExpectedRemaining(makeBuckets(g, ans)),
                 computeExpectedRemaining(makeBuckets(h, ans)))
    ELSE EntropyNum(makeBuckets(g, ans), DOMAIN makeBuckets(g, ans), Len(ans))
             > EntropyNum(makeBuckets(h, ans), DOMAIN makeBuckets(h, ans), Len(ans))

(* C1: every successful setResponse(code) sets answers to the stored       *)
(* bucket of code, adds exactly 1 to guessCount, and leaves nextGuess and  *)
(* buckets equal to an output of the selector run on the new answers.      *)
C1_SetResponsePostcondition ==
    [][Succeeds("setResponse") =>
        /\ answers' = buckets[last'.arg]
        /\ guessCount' = guessCount + 1
        /\ \E guesses \in {answers', DefaultGuesses} :
               [guess |-> nextGuess', buckets |-> buckets']
                   \in Selector(answers', guesses)]_vars

(* C2, as claimed: every successful setResponse leaves answers strictly    *)
(* shorter, unless answers was already the single word nextGuess and the   *)
(* response is 22222.                                                      *)
C2_StrictShrink ==
    [][Succeeds("setResponse") =>
        \/ Len(answers') < Len(answers)
        \/ /\ answers = <<nextGuess>>
           /\ last'.arg = Code22222]_vars

\* s is t with some elements left out, the order kept
RECURSIVE IsSubSequence(_, _)
IsSubSequence(s, t) ==
    IF s = <<>> THEN TRUE
    ELSE IF t = <<>> THEN FALSE
    ELSE IF Head(s) = Head(t) THEN IsSubSequence(Tail(s), Tail(t))
    ELSE IsSubSequence(s, Tail(t))

(* C2, amended: every successful setResponse leaves answers a sub-list of  *)
(* what it was, never longer, and strictly shorter exactly when the guess  *)
(* it answers split the answers into more than one bucket.                 *)
C2_ShrinkIffSplit ==
    [][Succeeds("setResponse") =>
        /\ IsSubSequence(answers', answers)
        /\ Len(answers') <= Len(answers)
        /\ Len(answers') < Len(answers) <=> Cardinality(DOMAIN buckets) > 1]_vars

\* a second successful setResponse, with answers shortened and more than one
\* answer left
C2_Witness ==
    /\ Succeeded("setResponse")
    /\ Len(answers) < Len(VALID_ANSWERS)
    /\ Len(answers) > 1
    /\ guessCount > 1

(* C3: an answer that every response passed so far was honest for is still *)
(* in answers, and no response honest for it was refused with 'no answers  *)
(* remaining'.                                                             *)
C3_AnswerRetention ==
    \A a \in consistent :
        /\ a \in Range(answers)
        /\ ~(last.op = "setResponse" /\ last.err = "no answers remaining")

\* two honest responses, neither of them 22222, with the answers narrowed
C3_Witness ==
    /\ consistent # {}
    /\ Succeeded("setResponse")
    /\ last.arg # Code22222
    /\ guessCount >= 2
    /\ Len(answers) < Len(VALID_ANSWERS)

(* C4: setNextGuess(w) with w of exactly 5 letters stores and returns      *)
(* lowercase(w), sets buckets to makeBuckets(lowercase(w), answers), and   *)
(* leaves answers and guessCount alone, in every state.                    *)
C4_OverridePostcondition ==
    [][(last'.op = "setNextGuess" /\ GuessRegex(last'.arg)) =>
        /\ last'.err = "none"
        /\ nextGuess' = toLowerCase(last'.arg)
        /\ buckets' = makeBuckets(toLowerCase(last'.arg), answers)
        /\ answers' = answers
        /\ guessCount' = guessCount]_vars

(* C5: setNextGuess(word) throws 'invalid guess' for every string that is  *)
(* not exactly 5 letters, the empty string included, and changes nothing.  *)
C5_OverrideRejection ==
    [][(last'.op = "setNextGuess" /\ last'.arg # Undefined /\ ~GuessRegex(last'.arg)) =>
        /\ last'.err = "invalid guess"
        /\ nextGuess' = nextGuess
        /\ buckets' = buckets
        /\ answers' = answers
        /\ guessCount' = guessCount]_vars

\* the presence pass of the two-phase reference: the positions from i on, with
\* leftover[c] the count of c still unmatched in the answer
RECURSIVE PresencePass(_, _, _, _, _)
PresencePass(i, leftover, response, answer, guess) ==
    IF i > Len(guess) THEN response
    ELSE IF answer[i] = guess[i]
    THEN PresencePass(i + 1, leftover, response, answer, guess)
    ELSE IF leftover[guess[i]] > 0
    THEN PresencePass(i + 1, [leftover EXCEPT ![guess[i]] = @ - 1],
                      [response EXCEPT ![i] = "1"], answer, guess)
    ELSE PresencePass(i + 1, leftover, [response EXCEPT ![i] = "0"], answer, guess)

\* the two-phase reference: the exact pass, then the presence pass
TwoPhase(answer, guess) ==
    PresencePass(1,
                 [c \in Range(answer) \cup Range(guess) |->
                     Cardinality({i \in DOMAIN answer :
                                     answer[i] = c /\ guess[i] # c})],
                 [i \in DOMAIN guess |-> IF answer[i] = guess[i] THEN "2" ELSE "0"],
                 answer, guess)

(* C6: evaluateGuess(answer, guess) returns the code of the two-phase      *)
(* reference for every pair of words, repeated letters allowed.            *)
C6_EvaluatorEquivalence ==
    evalResponse # <<>> => evalResponse = TwoPhase(evalAnswer, evalGuess)

\* a guess with a letter repeated beyond the answer's count: one occurrence
\* exact, an earlier one absent although the answer holds the letter, and
\* another letter present
C6_Witness ==
    /\ evalResponse # <<>>
    /\ \E i, j, k \in DOMAIN evalGuess :
          /\ i < j
          /\ evalGuess[i] = evalGuess[j]
          /\ evalResponse[i] = "0"
          /\ evalResponse[j] = "2"
          /\ evalResponse[k] = "1"

(* C7: on every successful setResponse the selector scans the new answers  *)
(* exactly when their number plus the guessCount just incremented is at    *)
(* most 6, and the full list of guesses otherwise.                         *)
C7_GuessUniversePolicy ==
    Succeeded("setResponse") =>
        /\ last.selector
        /\ last.guesses = IF Len(answers) + guessCount <= TurnBudget
                          THEN answers
                          ELSE DefaultGuesses

(* C8: the guess the selector returns scores no worse than any guess it    *)
(* scanned, and is one of the answers whenever a best-scoring guess is.    *)
C8_SelectorTieBreak ==
    last.selector =>
        /\ \A g \in Range(last.guesses) : ~ScoresBetter(g, nextGuess, answers)
        /\ (\E g \in Range(last.guesses) :
                g \in Range(answers) /\ ~ScoresBetter(nextGuess, g, answers))
               => nextGuess \in Range(answers)

(* C9: in every state buckets is the partition of answers by nextGuess:    *)
(* each answer is in the bucket of its response to nextGuess, once, and in *)
(* no other; no bucket is empty or holds a word that is not an answer.     *)
C9_BucketsPartition ==
    /\ \A a \in Range(answers) :
          LET index == evaluateGuess(a, nextGuess)
          IN  /\ index \in DOMAIN buckets
              /\ Cardinality({i \in DOMAIN buckets[index] : buckets[index][i] = a}) = 1
              /\ \A k \in DOMAIN buckets : a \in Range(buckets[k]) => k = index
    /\ \A k \in DOMAIN buckets :
          /\ buckets[k] # <<>>
          /\ Range(buckets[k]) \subseteq Range(answers)

\* after a response, a guess set by the caller that splits the answers, and
\* then a call that failed
C9_Witness ==
    /\ last.err # "none"
    /\ guessCount >= 1
    /\ nextGuess = <<"c", "r", "a", "n", "e">>
    /\ Cardinality(DOMAIN buckets) >= 2

(* C10: in a game of honest responses and no setNextGuess call, the guess  *)
(* is eventually the hidden answer, whatever sample() picks.               *)
C10_EventualSolve == <>(nextGuess = hidden)

=============================================================================
